---- MODULE Spec2Model ----
(***************************************************************************)
(* A model of widgeon.utils.animations: the scalar rate solver             *)
(* _animate_value and the vector animator AnimVec.                         *)
(*                                                                         *)
(* Numbers.  The program computes in float64.  The model computes in       *)
(* fixed point: a real x is the integer round(x * SCALE), and every        *)
(* product and quotient is rounded to the nearest unit (ties away from     *)
(* zero).  The stored drag, which the program keeps as 10 ** (-input),     *)
(* is kept by its exponent in tenths: drag value e stands for the float    *)
(* 10 ** (-e / 10), so that 1e-7 and 10.0 are both representable.          *)
(* math.log and ** on the drag are computed from that exponent with        *)
(* ln 10 = LN10 / SCALE and a table of 10 ** (-j / 100).                   *)
(* A number that is not finite is not an integer of the model: the kind    *)
(* of each target entry is kept in target_kind, and the model follows an   *)
(* animator no further than its first entry that is not finite.  A Python  *)
(* exception is recorded in err and leaves the fields as they were.        *)
(***************************************************************************)
EXTENDS Integers, Sequences, FiniteSets, TLC

\* ------------------------------------------------------------- bounds

\* Number of axes of the animated vector.
N == 3
\* Number of operations applied to one animator after its construction.
MaxOps == 4
\* Largest magnitude of a value or target (units of 1 / SCALE).
MaxPos == 60
\* Largest magnitude of a rate of change (units of 1 / SCALE).
MaxVel == 1200

\* -------------------------------------------------------- fixed point

SCALE == 1000
LN10 == 2303

Axes == 1 .. N

\* F(x) with x evaluated once.
Bind(x, F(_)) == CHOOSE y \in {F(v) : v \in {x}} : TRUE

Abs(x) == IF x < 0 THEN -x ELSE x

\* np.sign
Sign(x) == IF x > 0 THEN 1 ELSE IF x < 0 THEN -1 ELSE 0

\* a / b rounded to the nearest integer, ties away from zero (b # 0).
RoundDiv(a, b) == Sign(a) * Sign(b) * ((Abs(a) + Abs(b) \div 2) \div Abs(b))

\* x * y and x / y of two fixed-point numbers.
FMul(x, y) == RoundDiv(x * y, SCALE)
FDiv(x, y) == RoundDiv(x * SCALE, y)

\* The largest r in lo .. hi with r * r <= n, by bisection.
RECURSIVE SqrtSearch(_, _, _)
SqrtSearch(n, lo, hi) ==
    IF lo >= hi THEN lo
    ELSE CHOOSE r \in {IF mid * mid <= n THEN SqrtSearch(n, mid, hi)
                       ELSE SqrtSearch(n, lo, mid - 1) :
                       mid \in {(lo + hi + 1) \div 2}} : TRUE

\* The integer nearest to the square root of n >= 0.
ISqrt(n) ==
    CHOOSE s \in {IF m - r * r > r THEN r + 1 ELSE r :
                  m \in {n}, r \in {SqrtSearch(n, 0, 46340)}} : TRUE

\* np.sqrt of a fixed-point number.
FSqrt(x) == ISqrt(x * SCALE)

Zero == [k \in Axes |-> 0]

RECURSIVE DotTo(_, _, _)
DotTo(a, b, k) == IF k = 0 THEN 0 ELSE a[k] * b[k] + DotTo(a, b, k - 1)

\* a.dot(b), in units of 1 / SCALE^2 (not rounded).
Dot(a, b) == DotTo(a, b, N)

\* 10 ** (-j / 100) for j in 0 .. 99.
Exp10Table ==
    << 1000, 977, 955, 933, 912, 891, 871, 851, 832, 813,
       794, 776, 759, 741, 724, 708, 692, 676, 661, 646,
       631, 617, 603, 589, 575, 562, 550, 537, 525, 513,
       501, 490, 479, 468, 457, 447, 437, 427, 417, 407,
       398, 389, 380, 372, 363, 355, 347, 339, 331, 324,
       316, 309, 302, 295, 288, 282, 275, 269, 263, 257,
       251, 245, 240, 234, 229, 224, 219, 214, 209, 204,
       200, 195, 191, 186, 182, 178, 174, 170, 166, 162,
       158, 155, 151, 148, 145, 141, 138, 135, 132, 129,
       126, 123, 120, 117, 115, 112, 110, 107, 105, 102 >>

RECURSIVE Pow10(_)
Pow10(n) == IF n <= 0 THEN 1 ELSE 10 * Pow10(n - 1)

\* 10 ** (-h / 100) for an integer h of either sign.
Exp10Neg(h) ==
    LET q == h \div 100
        r == h % 100
    IN IF q >= 7 THEN 0
       ELSE IF q >= 0 THEN RoundDiv(Exp10Table[r + 1], Pow10(q))
       ELSE Exp10Table[r + 1] * Pow10(-q)

\* math.log(drag) of the stored drag 10 ** (-e / 10).
LogDrag(e) == -RoundDiv(e * LN10, 10)

\* drag ** delta of the stored drag 10 ** (-e / 10).
DragPow(e, delta) == Exp10Neg(RoundDiv(e * delta * 10, SCALE))

\* np.power(x, 1 / m) and np.power(x, m) for x >= 0 and a whole m.
PowInv(x, m) == IF m = 1 THEN x ELSE FSqrt(x)
PowFwd(x, m) == IF m = 1 THEN x ELSE FMul(x, x)

\* ---------------------------------------------------- the rate solver

\* A float that may be infinite or NaN (the result of a division by 0.0).
Fin(v) == [k |-> "fin", v |-> v]
NaN == [k |-> "nan", v |-> 0]
PInf == [k |-> "inf", v |-> 1]
NInf == [k |-> "inf", v |-> -1]

\* a < b for floats: false when either is NaN.
Lt(a, b) ==
    /\ a.k # "nan"
    /\ b.k # "nan"
    /\ IF a.k = "fin" /\ b.k = "fin" THEN a.v < b.v
       ELSE IF a.k = "inf" /\ b.k = "inf" THEN a.v < b.v
       ELSE IF a.k = "inf" THEN a.v < 0
       ELSE b.v > 0

\* value - change_rate / math.log(drag), with numpy's division by 0.0.
moving_toward(value, change_rate, e) ==
    IF LogDrag(e) # 0 THEN Fin(value - FDiv(change_rate, LogDrag(e)))
    ELSE IF change_rate = 0 THEN NaN
    ELSE IF change_rate > 0 THEN NInf
    ELSE PInf

\* The 0.01 of the approach test.
Tolerance == SCALE \div 100

\* The approach branch without its last clamp, the one that lands on the
\* target instead of passing it.
ApproachUnclamped(value, change_rate, goal, acc, acc_modifier, e, delta_time) ==
    Bind(Sign(change_rate)
           * PowInv(RoundDiv(Abs(change_rate), acc_modifier + 1), acc_modifier)
           + FMul(delta_time, acc),
         LAMBDA progress :
    Bind(Sign(progress) * (acc_modifier + 1) * PowFwd(Abs(progress), acc_modifier),
         LAMBDA rate1 :
    IF Lt(Fin(goal), moving_toward(value, rate1, e))
    THEN FMul(value - goal, LogDrag(e))
    ELSE rate1))

\* The approach branch without the step of the progress by
\* delta_time * acceleration.
ApproachStalled(value, change_rate, goal, acc, acc_modifier, e, delta_time) ==
    Bind(Sign(change_rate)
           * PowInv(RoundDiv(Abs(change_rate), acc_modifier + 1), acc_modifier),
         LAMBDA progress :
    Bind(Sign(progress) * (acc_modifier + 1) * PowFwd(Abs(progress), acc_modifier),
         LAMBDA rate1 :
    Bind(IF Lt(Fin(goal), moving_toward(value, rate1, e))
         THEN FMul(value - goal, LogDrag(e))
         ELSE rate1,
         LAMBDA rate2 :
    IF value + FMul(rate2, delta_time) > goal
    THEN FDiv(goal - value, delta_time)
    ELSE rate2)))

\* The approach branch: accelerate, then the two clamps.  goal, acc and
\* acc_modifier are the code's target, acceleration and acceleration_modifier.
Approach(value, change_rate, goal, acc, acc_modifier, e, delta_time) ==
    Bind(Sign(change_rate)
           * PowInv(RoundDiv(Abs(change_rate), acc_modifier + 1), acc_modifier)
           + FMul(delta_time, acc),
         LAMBDA progress :
    Bind(Sign(progress) * (acc_modifier + 1) * PowFwd(Abs(progress), acc_modifier),
         LAMBDA rate1 :
    Bind(IF Lt(Fin(goal), moving_toward(value, rate1, e))
         THEN FMul(value - goal, LogDrag(e))
         ELSE rate1,
         LAMBDA rate2 :
    IF value + FMul(rate2, delta_time) > goal
    THEN FDiv(goal - value, delta_time)
    ELSE rate2)))

\* The other branch: the snap to the coasting rate, then the decay.
Coast(value, change_rate, goal, e, delta_time) ==
    Bind(moving_toward(value, change_rate, e), LAMBDA moving_twd :
    FMul(IF Lt(moving_twd, Fin(goal + change_rate)) /\ Lt(Fin(goal), moving_twd)
         THEN FMul(value - goal, LogDrag(e))
         ELSE change_rate,
         DragPow(e, delta_time)))

\* _animate_value.  is_int: change_rate is the Python int 0, whose division
\* by math.log(1) = 0.0 raises ZeroDivisionError.
animate_value(value, change_rate, is_int, goal, acc, acc_modifier, e, delta_time) ==
    IF is_int /\ LogDrag(e) = 0 THEN [err |-> "ZeroDivisionError", rate |-> 0]
    ELSE IF Lt(moving_toward(value, change_rate, e), Fin(goal - Tolerance))
    THEN [err |-> "none",
          rate |-> Approach(value, change_rate, goal, acc, acc_modifier, e,
                            delta_time)]
    ELSE [err |-> "none", rate |-> Coast(value, change_rate, goal, e, delta_time)]

\* ------------------------------------------------------------ AnimVec

VARIABLES
    values,                 \* self._values
    target,                 \* self._target
    change,                 \* self._change
    animate,                \* self._animate
    loose,                  \* self._loose
    record_change,          \* self._record_change
    acceleration,           \* self._acceleration
    acceleration_modifier,  \* self._acceleration_modifier
    drag,                   \* self._drag: << >> for None, <<e>> for 10 ** (-e / 10)
    default_drag,           \* AnimVec.default_drag, as an exponent in tenths
    target_kind,            \* per axis: "fin", or what float target[k] holds instead
    err,                    \* the exception the last call raised, or "none"
    last,                   \* the last call and the fields before it
    ops,                    \* calls made so far
    frame                   \* the caller's fixed frame time, 0 when it has none

vars == << values, target, change, animate, loose, record_change, acceleration,
           acceleration_modifier, drag, default_drag, target_kind, err, last,
           ops, frame >>

\* The drag tick uses: the animator's own, or the class default.
DragUsed == IF drag = << >> THEN default_drag ELSE drag[1]

AllFinite == [k \in Axes |-> "fin"]

\* The loose tick without the line that recomputes the target.
LooseTickKeepTarget(delta) ==
    Bind(DragPow(DragUsed, delta), LAMBDA decay :
    Bind([k \in Axes |-> FMul(change[k], decay)], LAMBDA c1 :
    [err |-> "none",
     change |-> c1,
     target |-> target,
     target_kind |-> AllFinite,
     values |-> [k \in Axes |-> values[k] + FMul(c1[k], delta)]]))

\* tick, animate and loose: decay, then the target the motion coasts to.
LooseTick(delta) ==
    Bind(DragUsed, LAMBDA e :
    Bind(DragPow(e, delta), LAMBDA decay :
    Bind([k \in Axes |-> FMul(change[k], decay)], LAMBDA c1 :
    [err |-> "none",
     change |-> c1,
     target |-> IF LogDrag(e) = 0 THEN target
                ELSE [k \in Axes |-> values[k] - FDiv(c1[k], LogDrag(e))],
     target_kind |-> IF LogDrag(e) # 0 THEN AllFinite
                     ELSE [k \in Axes |-> IF c1[k] = 0 THEN "nan"
                                          ELSE IF c1[k] > 0 THEN "-inf"
                                          ELSE "inf"],
     values |-> [k \in Axes |-> values[k] + FMul(c1[k], delta)]])))

\* tick, animate and not loose: the solver on the distance to the target.
\* A distance of 0 stands for the 10e-100 the code puts in its place.
TetherTick(delta) ==
    Bind([k \in Axes |-> target[k] - values[k]], LAMBDA difference_vector :
    Bind(Dot(difference_vector, difference_vector), LAMBDA d_dot_d :
    Bind(ISqrt(d_dot_d), LAMBDA distance :
    Bind(Dot(change, difference_vector), LAMBDA c_dot_d :
    Bind(ISqrt(Dot(change, change)), LAMBDA abs_c :
    Bind(d_dot_d * abs_c, LAMBDA den :
    Bind(IF den # 0 THEN RoundDiv(c_dot_d * Abs(c_dot_d), den) ELSE 0, LAMBDA rate0 :
    Bind(animate_value(0, rate0, den = 0, distance, acceleration,
                       acceleration_modifier, DragUsed, delta), LAMBDA res :
    Bind([k \in Axes |-> IF distance = 0 THEN 0
                         ELSE RoundDiv(res.rate * difference_vector[k], distance)],
         LAMBDA c1 :
    [err |-> res.err,
     change |-> c1,
     target |-> target,
     target_kind |-> AllFinite,
     values |-> [k \in Axes |-> values[k] + FMul(c1[k], delta)]])))))))))

\* The tick with animate false that moves the values half of the way.
InstantTickHalfway(delta) ==
    Bind([k \in Axes |-> FDiv(target[k] - values[k], delta)], LAMBDA new_change :
    [err |-> "none",
     change |-> IF record_change THEN new_change ELSE Zero,
     target |-> target,
     target_kind |-> AllFinite,
     values |-> [k \in Axes |-> values[k] + (target[k] - values[k]) \div 2]])

\* tick, not animate: estimate the change, then snap.
InstantTick(delta) ==
    Bind(FDiv(1 * SCALE, (1 + 2) * SCALE), LAMBDA a :
    Bind(FDiv(2 * SCALE, a + 2 * SCALE), LAMBDA b :
    Bind([k \in Axes |-> FDiv(target[k] - values[k], delta)], LAMBDA new_change :
    [err |-> "none",
     change |-> IF record_change
                THEN IF Dot(new_change, new_change) > Dot(change, change)
                     THEN new_change
                     ELSE [k \in Axes |-> FMul(change[k], a) + FMul(new_change[k], b)]
                ELSE Zero,
     target |-> target,
     target_kind |-> AllFinite,
     values |-> target])))

TickResult(delta) ==
    IF animate THEN IF loose THEN LooseTick(delta) ELSE TetherTick(delta)
    ELSE InstantTick(delta)

\* The fields before a call, kept with the call's name and arguments, and
\* the name of the call before it.
Record(op, prev, axis, arg) ==
    [op |-> op, prev |-> prev, axis |-> axis, arg |-> arg, values |-> values,
     target |-> target, change |-> change, animate |-> animate, loose |-> loose,
     record_change |-> record_change, drag |-> DragUsed]

Before(op, axis, arg) == Record(op, last.op, axis, arg)

\* Every number of the state is a number of the model.
InRange(v, t, c) ==
    \A k \in Axes : Abs(v[k]) <= MaxPos /\ Abs(t[k]) <= MaxPos /\ Abs(c[k]) <= MaxVel

\* The animator's state is finite: the model follows it.
Running == target_kind = AllFinite

\* The products of the tethered tick fit the model's 32-bit integers.
Fits ==
    (animate /\ ~loose) =>
        Abs(Dot(change, [k \in Axes |-> target[k] - values[k]])) <= 46340

\* tick(delta).  An exception leaves every field as it was.
Tick(delta) ==
    /\ Running
    /\ Fits
    /\ \E r \in {TickResult(delta)} :
          /\ InRange(r.values, r.target, r.change)
          /\ err' = r.err
          /\ values' = IF r.err = "none" THEN r.values ELSE values
          /\ target' = IF r.err = "none" THEN r.target ELSE target
          /\ change' = IF r.err = "none" THEN r.change ELSE change
          /\ target_kind' = IF r.err = "none" THEN r.target_kind ELSE target_kind
    /\ last' = Before("tick", 0, delta)
    /\ UNCHANGED << animate, loose, record_change, acceleration,
                    acceleration_modifier, drag, default_drag, frame >>

\* jump()
Jump ==
    /\ Running
    /\ values' = target
    /\ change' = Zero
    /\ err' = "none"
    /\ last' = Before("jump", 0, 0)
    /\ UNCHANGED << target, animate, loose, record_change, acceleration,
                    acceleration_modifier, drag, default_drag, target_kind, frame >>

\* jump(i) that ignores i and jumps on every axis.
JumpAxisAll(i) ==
    /\ Running
    /\ values' = target
    /\ change' = Zero
    /\ err' = "none"
    /\ last' = Before("jump_axis", i, 0)
    /\ UNCHANGED << target, animate, loose, record_change, acceleration,
                    acceleration_modifier, drag, default_drag, target_kind, frame >>

\* jump(i), i the axis (the Python index plus one)
JumpAxis(i) ==
    /\ Running
    /\ values' = [values EXCEPT ![i] = target[i]]
    /\ change' = [change EXCEPT ![i] = 0]
    /\ err' = "none"
    /\ last' = Before("jump_axis", i, 0)
    /\ UNCHANGED << target, animate, loose, record_change, acceleration,
                    acceleration_modifier, drag, default_drag, target_kind, frame >>

\* cap_change(value)
CapChange(value) ==
    /\ Running
    /\ change' = [k \in Axes |-> IF Abs(change[k]) > value THEN value ELSE change[k]]
    /\ err' = "none"
    /\ last' = Before("cap_change", 0, value)
    /\ UNCHANGED << values, target, animate, loose, record_change, acceleration,
                    acceleration_modifier, drag, default_drag, target_kind, frame >>

\* What cap_change(value, i) stores in change[i]: the Python index i itself.
CapStored(value, i) == (i - 1) * SCALE

\* cap_change(value, i)
CapChangeAxis(value, i) ==
    /\ Running
    /\ change' = IF change[i] > value
                 THEN [change EXCEPT ![i] = CapStored(value, i)]
                 ELSE change
    /\ err' = "none"
    /\ last' = Before("cap_change_axis", i, value)
    /\ UNCHANGED << values, target, animate, loose, record_change, acceleration,
                    acceleration_modifier, drag, default_drag, target_kind, frame >>

\* get_axis_from(source, axis, source_axis), source another animator's fields
GetAxisFrom(source, axis, source_axis) ==
    /\ Running
    /\ change' = [change EXCEPT ![axis] = source.change[source_axis]]
    /\ values' = [values EXCEPT ![axis] = source.values[source_axis]]
    /\ target' = [target EXCEPT ![axis] = source.target[source_axis]]
    /\ err' = "none"
    /\ last' = Before("get_axis_from", axis, source_axis)
    /\ UNCHANGED << animate, loose, record_change, acceleration,
                    acceleration_modifier, drag, default_drag, target_kind, frame >>

\* animate = value that zeroes the change and leaves the target.
SetAnimateKeepTarget(value) ==
    /\ Running
    /\ animate' = value
    /\ change' = IF ~value THEN Zero ELSE change
    /\ err' = "none"
    /\ last' = Before("animate", 0, 0)
    /\ UNCHANGED << values, target, loose, record_change, acceleration,
                    acceleration_modifier, drag, default_drag, target_kind, frame >>

\* animate = value
SetAnimate(value) ==
    /\ Running
    /\ animate' = value
    /\ change' = IF ~value THEN Zero ELSE change
    /\ target' = IF ~value THEN values ELSE target
    /\ err' = "none"
    /\ last' = Before("animate", 0, 0)
    /\ UNCHANGED << values, loose, record_change, acceleration,
                    acceleration_modifier, drag, default_drag, target_kind, frame >>

\* loose = value
SetLoose(value) ==
    /\ Running
    /\ loose' = value
    /\ err' = "none"
    /\ last' = Before("loose", 0, 0)
    /\ UNCHANGED << values, target, change, animate, record_change, acceleration,
                    acceleration_modifier, drag, default_drag, target_kind, frame >>

\* record_change = value
SetRecordChange(value) ==
    /\ Running
    /\ record_change' = value
    /\ err' = "none"
    /\ last' = Before("record_change", 0, 0)
    /\ UNCHANGED << values, target, change, animate, loose, acceleration,
                    acceleration_modifier, drag, default_drag, target_kind, frame >>

\* What the drag setter stores for an input of value / 10:
\* 10 ** (-value / 10), or 1 = 10 ** 0 for an input that is not positive.
StoredDrag(value) == IF value > 0 THEN value ELSE 0

\* What set_default_drag stores for an input of value / 10: 10 ** (-value / 10).
StoredDefaultDrag(value) == value

\* drag = value / 10
SetDrag(value) ==
    /\ Running
    /\ drag' = << StoredDrag(value) >>
    /\ err' = "none"
    /\ last' = Before("drag", 0, value)
    /\ UNCHANGED << values, target, change, animate, loose, record_change,
                    acceleration, acceleration_modifier, default_drag, target_kind,
                    frame >>

\* AnimVec.set_default_drag(value / 10)
SetDefaultDrag(value) ==
    /\ Running
    /\ default_drag' = StoredDefaultDrag(value)
    /\ err' = "none"
    /\ last' = Before("set_default_drag", 0, value)
    /\ UNCHANGED << values, target, change, animate, loose, record_change,
                    acceleration, acceleration_modifier, drag, target_kind, frame >>

\* change = value
SetChange(value) ==
    /\ Running
    /\ change' = value
    /\ err' = "none"
    /\ last' = Before("change", 0, 0)
    /\ UNCHANGED << values, target, animate, loose, record_change, acceleration,
                    acceleration_modifier, drag, default_drag, target_kind, frame >>

\* self[i - 1] = value, and the x and y setters for i = 1 and i = 2
SetItem(i, value) ==
    /\ Running
    /\ target' = [target EXCEPT ![i] = value]
    /\ err' = "none"
    /\ last' = Before("setitem", i, value)
    /\ UNCHANGED << values, change, animate, loose, record_change, acceleration,
                    acceleration_modifier, drag, default_drag, target_kind, frame >>

\* z = value: the third axis, written into the values
SetZ(value) ==
    /\ Running
    /\ N >= 3
    /\ values' = [values EXCEPT ![3] = value]
    /\ err' = "none"
    /\ last' = Before("z", 3, value)
    /\ UNCHANGED << target, change, animate, loose, record_change, acceleration,
                    acceleration_modifier, drag, default_drag, target_kind, frame >>

\* ------------------------------------------------------------ inputs

\* Frame times: 0.1 and 1.
Deltas == {SCALE \div 10, SCALE}

\* Drag inputs, in tenths: -1, 0, 0.3 and 1.
DragInputs == {-10, 0, 3, 10}

\* A vector with a on the first axis, b on the second and 0 elsewhere.
Vec(a, b) == [k \in Axes |-> IF k = 1 THEN a ELSE IF k = 2 THEN b ELSE 0]

\* Vectors given to the constructor.
InitVectors == {Zero, Vec(10, -20)}

\* Values assigned to a target axis, and to z.
TargetInputs == {30}

\* Vectors assigned to change.
ChangeInputs == {Vec(300, -200), Vec(-40, 1200)}

\* Limits given to cap_change.
LimitInputs == {100}

\* The animators get_axis_from reads.
Sources ==
    {[values |-> Vec(5, 7), target |-> Vec(5, 50), change |-> Vec(0, 150)]}

\* ------------------------------------------------------ specification

\* AnimVec(vector, acceleration = acc, acceleration_modifier = m, drag = d):
\* d is << >> when no drag is given.
New(vector, acc, m, d) ==
    /\ values = vector
    /\ target = vector
    /\ change = Zero
    /\ animate = TRUE
    /\ loose = FALSE
    /\ record_change = TRUE
    /\ acceleration = (IF acc > 0 THEN acc ELSE 0)
    /\ acceleration_modifier = (IF m > 0 THEN m ELSE 0)
    /\ drag = (IF d = << >> THEN << >> ELSE << StoredDrag(d[1]) >>)
    /\ default_drag = 70
    /\ target_kind = AllFinite
    /\ err = "none"
    /\ ops = 0

Init ==
    /\ \E vector \in InitVectors : New(vector, SCALE \div 2, 1, << >>)
    /\ frame = 0
    /\ last = Record("new", "none", 0, 0)

Count == ops < MaxOps /\ ops' = ops + 1

Next ==
    \/ \E delta \in Deltas : Count /\ Tick(delta)
    \/ Count /\ Jump
    \/ \E i \in Axes : Count /\ JumpAxis(i)
    \/ \E value \in LimitInputs : Count /\ CapChange(value)
    \/ \E value \in LimitInputs, i \in Axes : Count /\ CapChangeAxis(value, i)
    \/ \E source \in Sources, i \in Axes : Count /\ GetAxisFrom(source, i, (i % N) + 1)
    \/ \E value \in BOOLEAN : Count /\ SetAnimate(value)
    \/ \E value \in BOOLEAN : Count /\ SetLoose(value)
    \/ \E value \in BOOLEAN : Count /\ SetRecordChange(value)
    \/ \E value \in DragInputs : Count /\ SetDrag(value)
    \/ \E value \in DragInputs : Count /\ SetDefaultDrag(value)
    \/ \E value \in ChangeInputs : Count /\ SetChange(value)
    \/ \E i \in Axes, value \in TargetInputs : Count /\ SetItem(i, value)
    \/ \E value \in TargetInputs : Count /\ SetZ(value)

Spec == Init /\ [][Next]_vars

\* Tethered animation: an animator that was constructed at the origin and
\* then given a target (by index) and a change (by the change setter).
TetherTargets == {Vec(a, b) : a \in {0, 8, 40}, b \in {0, 30}}
TetherChanges == {Vec(a, b) : a \in {-100, 0, 200}, b \in {0, 100}}
TetherDrags == {<< >>, <<3>>, <<10>>}

Aimed(t, c, acc, m, d) ==
    /\ values = Zero
    /\ target = t
    /\ change = c
    /\ animate = TRUE
    /\ loose = FALSE
    /\ record_change = TRUE
    /\ acceleration = acc
    /\ acceleration_modifier = m
    /\ drag = d
    /\ default_drag = 70
    /\ target_kind = AllFinite
    /\ err = "none"
    /\ ops = 0

InitTether ==
    /\ \E t \in TetherTargets, c \in TetherChanges, acc \in {SCALE \div 2, SCALE},
          m \in {1, 2}, d \in TetherDrags :
           Aimed(t, c, acc, m, d)
    /\ frame = 0
    /\ last = Record("change", "setitem", 0, 0)

NextTether == \E delta \in Deltas : Tick(delta) /\ UNCHANGED ops

SpecTether == InitTether /\ [][NextTether]_vars

\* The same animators driven by a frame loop: tick(frame) again and again.
InitLive ==
    /\ \E t \in TetherTargets, c \in TetherChanges, acc \in {SCALE \div 2, SCALE},
          m \in {1, 2}, d \in TetherDrags :
           Aimed(t, c, acc, m, d)
    /\ frame = SCALE \div 10
    /\ last = Record("change", "setitem", 0, 0)

NextLive == Tick(frame) /\ UNCHANGED ops

SpecLive == InitLive /\ [][NextLive]_vars /\ WF_vars(NextLive)

\* ------------------------------------------------------------- claims

\* distance_to_target() of the fields v and t, and of the current state.
DistanceOf(v, t) ==
    LET difference_vector == [k \in Axes |-> t[k] - v[k]]
    IN ISqrt(Dot(difference_vector, difference_vector))

distance_to_target == DistanceOf(values, target)

\* The last call was a tick in tethered mode that returned.
TetheredTick == last.op = "tick" /\ last.animate /\ ~last.loose /\ err = "none"

\* C1 as stated: in tethered mode one tick never moves the values farther
\* from the target (two units of rounding allowed).
C1_NeverFarther ==
    TetheredTick => distance_to_target <= DistanceOf(last.values, last.target) + 2

\* The change before the last call had no component away from the target,
\* and the drag used was at most 1 / e (ln(drag) <= -1).
TowardTarget ==
    /\ Dot(last.change, [k \in Axes |-> last.target[k] - last.values[k]]) >= 0
    /\ LogDrag(last.drag) <= -SCALE

\* C1 amended: in tethered mode, when the change has no component pointing
\* away from the target and the stored drag is at most 1 / e, one tick never
\* moves the values farther from the target (two units of rounding allowed).
C1_NeverFartherToward ==
    (TetheredTick /\ TowardTarget) =>
        distance_to_target <= DistanceOf(last.values, last.target) + 2

\* C1 witness: such a tick has moved the values closer to a distant target.
C1_Witness ==
    /\ TetheredTick
    /\ TowardTarget
    /\ last.arg = SCALE
    /\ DistanceOf(last.values, last.target) > 3 * Tolerance
    /\ distance_to_target < DistanceOf(last.values, last.target)

\* C2 as stated, for eps = 0.005: repeated ticks with one frame time
\* eventually bring the distance to the target below eps.
C2_BelowAnyEps == <>(distance_to_target < Tolerance \div 2)

\* C2 amended: repeated ticks with one small frame time eventually bring
\* the distance to the target to at most the 0.01 of the approach test
\* (below any eps > 0.01); an animator at rest inside that band stays there.
C2_ReachesBand == <>(distance_to_target <= Tolerance)

\* C2 witness: ticks have brought an animator that started far from the
\* target, or moving, to rest inside the band.
C2_Witness ==
    /\ last.op = "tick"
    /\ DistanceOf(last.values, last.target) > Tolerance
    /\ distance_to_target <= Tolerance

\* The last call was tick with animate false.
InstantTicked == last.op = "tick" /\ ~last.animate

\* C3: with animate false every tick ends with values equal to target, the
\* target as it was; a second tick right after it changes neither.
C3_InstantSnap ==
    InstantTicked =>
        /\ values = target
        /\ target = last.target
        /\ (last.prev = "tick" => values = last.values)

\* C3 witness: a second tick in a row with animate false, after a first one
\* that moved the values and left an estimated change.
C3_Witness ==
    /\ InstantTicked
    /\ last.prev = "tick"
    /\ values = target
    /\ values = last.values
    /\ last.change # Zero

\* C4: jump() leaves values equal to target, a zero change, a distance of 0
\* and the target as it was; jump(i) does so on axis i and leaves every other
\* axis of values and change, and the target, as they were.
C4_Jump ==
    /\ last.op = "jump" =>
           /\ values = target
           /\ change = Zero
           /\ distance_to_target = 0
           /\ target = last.target
    /\ last.op = "jump_axis" =>
           /\ values[last.axis] = target[last.axis]
           /\ change[last.axis] = 0
           /\ target = last.target
           /\ \A k \in Axes \ {last.axis} :
                  values[k] = last.values[k] /\ change[k] = last.change[k]

\* C4 witness: jump(i) from a state where axis i and another axis were both
\* away from their targets and changing.
C4_Witness ==
    /\ last.op = "jump_axis"
    /\ last.values[last.axis] # last.target[last.axis]
    /\ last.change[last.axis] # 0
    /\ \E k \in Axes \ {last.axis} :
           /\ values[k] # target[k]
           /\ change[k] # 0
           /\ values[last.axis] = target[last.axis]

\* C5 as stated: in every state in which animate is false, target equals
\* values.
C5_FrozenAlways == ~animate => target = values

\* The calls that write one axis of target or of values alone.
Retargeting == {"setitem", "z", "get_axis_from"}

\* C5 amended: assigning animate = false zeroes change and sets target to
\* the current values at once; while animate stays false, target equals
\* values after every tick and every jump(), and every call other than a
\* target assignment, the z setter and get_axis_from keeps the equality.
C5_FrozenUntilRetargeted ==
    /\ (last.op = "animate" /\ ~animate) =>
           change = Zero /\ target = values /\ values = last.values
    /\ (~animate /\ last.op \in {"tick", "jump"}) => target = values
    /\ (~animate /\ last.op \notin Retargeting /\ last.target = last.values) =>
           target = values

\* C5 witness: with animate false, a tick after a target assignment has
\* made target and values equal again.
C5_Witness ==
    /\ ~animate
    /\ last.op = "tick"
    /\ last.prev = "setitem"
    /\ last.target # last.values
    /\ target = values

\* C6: with animate and loose true, a stored drag below 1 and a zero change,
\* a tick leaves values as they were and change zero, and ends with target
\* equal to values.
C6_LooseAtRest ==
    (last.op = "tick" /\ last.animate /\ last.loose /\ last.drag > 0 /\ last.change = Zero) =>
        /\ values = last.values
        /\ change = Zero
        /\ target = values

\* C6 witness: the second such tick in a row, the first of which found the
\* target away from the values.
C6_Witness ==
    /\ last.op = "tick"
    /\ last.prev = "tick"
    /\ last.animate
    /\ last.loose
    /\ last.drag > 0
    /\ last.change = Zero
    /\ target = values
    /\ values # Zero

\* C7 as stated: cap_change(limit) leaves every |change[k]| at most limit,
\* cap_change(limit, i) leaves |change[i]| at most limit, an entry that was
\* within the limit is as it was, and values and target are as they were.
C7_CapBounds ==
    /\ last.op = "cap_change" =>
           /\ \A k \in Axes :
                  /\ Abs(change[k]) <= last.arg
                  /\ (Abs(last.change[k]) <= last.arg => change[k] = last.change[k])
           /\ values = last.values
           /\ target = last.target
    /\ last.op = "cap_change_axis" =>
           /\ Abs(change[last.axis]) <= last.arg
           /\ (Abs(last.change[last.axis]) <= last.arg =>
                   change[last.axis] = last.change[last.axis])
           /\ values = last.values
           /\ target = last.target

\* C8 as stated: with a stored drag of exactly 1 and animate true, tick
\* raises no division error and leaves every number finite; in the loose
\* branch it ends with a zero change and target equal to values.
C8_DragOneStops ==
    (last.op = "tick" /\ last.animate /\ last.drag = 0) =>
        /\ err = "none"
        /\ target_kind = AllFinite
        /\ (last.loose => change = Zero /\ target = values)

\* C9 as stated: the drag tick uses lies in (0, 1], that is, its exponent
\* is not negative.
C9_DragInUnitInterval == DragUsed >= 0

\* The change C10 states for the blend: old / 3 + estimate * 2 / 3.
BlendStated(old, estimate) == RoundDiv(old + 2 * estimate, 3)

\* C10 as stated: tick with animate false and record_change true replaces
\* change by the estimate (target - values) / delta when the estimate is
\* the larger, and otherwise by old / 3 + estimate * 2 / 3 (one unit of
\* rounding allowed); with record_change false change becomes zero.
C10_BlendWeights ==
    InstantTicked =>
        LET estimate == [k \in Axes |->
                            FDiv(last.target[k] - last.values[k], last.arg)]
        IN IF ~last.record_change THEN change = Zero
           ELSE IF Dot(estimate, estimate) > Dot(last.change, last.change)
           THEN change = estimate
           ELSE \A k \in Axes :
                    Abs(change[k] - BlendStated(last.change[k], estimate[k])) <= 1

====
